---- MODULE Spec2Model ----
(***************************************************************************)
(* Watcher lifecycle engine of the fim agent (src/fimd_impl.cc).           *)
(*                                                                         *)
(* State: the Registry (watchers_), the agent's queue handle (mq_), the    *)
(* kernel's view of the POSIX message queue (open handles, the object      *)
(* linked under MQ_QUEUE_NAME, the messages of every queue object), the    *)
(* detached Sink threads, the detached Notification Workers with their     *)
(* observer (cleanup) threads, and the RPC caller threads.                 *)
(***************************************************************************)
EXTENDS Integers, Sequences, FiniteSets, TLC

(* ------------------------------ bounds --------------------------------- *)
MaxRequests == 3      \* requests handled in one behaviour
MaxRequestsW == 2     \* requests handled in one behaviour in which workers die
MaxContainers == 2    \* container ids in one request
MaxSubjects == 2      \* subjects in one request
MaxFailures == 1      \* workers that end with a non-success status
MaxEvents == 1        \* events posted by workers
MaxFaults == 1        \* system calls of the handlers that fail (eventfd, mq_open, write)
MaxRequestsE == 2     \* requests handled in one behaviour in which events flow
MaxPathLen == 6       \* segments of a watched path below the process root

(* --------------------------- request inputs ---------------------------- *)
Nodes == {"n1", "n2"}
Pods == {"pA", "pB"}
ContainerIds == {"c1", "c2", "cX"}

\* EOF, the failure value of eventfd, mq_open, mq_send, write and mq_receive
EOF == -1

Range(s) == {s[i] : i \in 1..Len(s)}

\* the pod a container belongs to
PodOf(c) == IF c = "c1" THEN "pA" ELSE "pB"

\* sequences without repetition, of length 1..n
ListsUpTo(S, n) ==
    {s \in UNION {[1..k -> S] : k \in 1..n} :
        \A i, j \in 1..Len(s) : i # j => s[i] # s[j]}

\* the requests: a node, the containers of interest (named by the pod of the
\* first one) and the number of subjects; on the second node, one container
\* and one subject
Requests ==
    {r \in [nodename : Nodes, podname : Pods,
            containerid : ListsUpTo(ContainerIds, MaxContainers),
            nsubject : 1..MaxSubjects] :
        /\ r.podname = PodOf(r.containerid[1])
        /\ r.nodename = "n2" => r.containerid = <<"c1">> /\ r.nsubject = 1}

(* ------------------------- pure parts of the code ---------------------- *)

\* FimdUtil::getPidForContainer: the pid of a container, 0 when it has none
getPidForContainer(c) ==
    CASE c = "c1" -> 1
      [] c = "c2" -> 2
      [] OTHER -> 0

\* getPidsFromRequest without the test of the pid
getPidsFromRequestUnfiltered(containerid) ==
    [i \in 1..Len(containerid) |-> getPidForContainer(containerid[i])]

\* getPidsFromRequest with every pid put in front of the ones before it
getPidsFromRequestReversed(containerid) ==
    LET pids == SelectSeq([i \in 1..Len(containerid) |->
                              getPidForContainer(containerid[i])],
                          LAMBDA pid : pid # 0)
    IN [i \in 1..Len(pids) |-> pids[Len(pids) + 1 - i]]

\* the pids of the request's containers, in request order, unresolved ids
\* (pid 0) left out
getPidsFromRequest(containerid) ==
    SelectSeq([i \in 1..Len(containerid) |-> getPidForContainer(containerid[i])],
              LAMBDA pid : pid # 0)

\* the loop of the lookup's predicate: foundPid is assigned once per pid of
\* `pids`, so the value left is the one of the last pid; with no pid it keeps
\* its initial value `init`
RECURSIVE foundPidLoop(_, _, _, _)
foundPidLoop(watcherPids, pids, i, init) ==
    IF i > Len(pids) THEN init
    ELSE foundPidLoop(watcherPids, pids, i + 1, pids[i] \in Range(watcherPids))

\* find_if over watchers_: the position of the first Watcher the predicate
\* accepts, 0 for nullptr. Every caller passes a non-empty `pids`, so the
\* indeterminate initial value of foundPid is always overwritten.
findFimdWatcherByPids(ws, nodeName, pids) ==
    LET hit == {i \in 1..Len(ws) :
                   /\ ws[i].nodename = nodeName
                   /\ foundPidLoop(ws[i].pid, pids, 1, FALSE)}
    IN IF hit = {} THEN 0 ELSE CHOOSE i \in hit : \A j \in hit : i <= j

\* A RepeatedField is an array `mem` of which the first `size` slots are its
\* elements; erase() moves the tail down and truncates, the slots past `size`
\* keep what they held.
RepeatedField(list) == [mem |-> list, size |-> Len(list)]
Elements(rf) == SubSeq(rf.mem, 1, rf.size)

\* erase the first element equal to processfd, if any
eraseEventProcessfd(rf, processfd) ==
    LET at == {j \in 1..rf.size : rf.mem[j] = processfd}
    IN IF at = {} THEN rf
       ELSE LET pos == CHOOSE j \in at : \A k \in at : j <= k
            IN [mem |-> [k \in 1..Len(rf.mem) |->
                            IF k >= pos /\ k < rf.size THEN rf.mem[k + 1]
                            ELSE rf.mem[k]],
                size |-> rf.size - 1]

\* for_each from cbegin() to cend(), both taken before the loop: slot i is
\* read whatever the erasures have moved into it. Result: the descriptors
\* written to, in order, and the field as it is left.
RECURSIVE killLoop(_, _, _, _)
killLoop(rf, i, n, writes) ==
    IF i > n THEN [writes |-> writes, rf |-> rf]
    ELSE killLoop(eraseEventProcessfd(rf, rf.mem[i]), i + 1, n,
                  Append(writes, rf.mem[i]))

sendKillSignalToWatcher(list) ==
    killLoop(RepeatedField(list), 1, Len(list), <<>>)


\* mq_maxmsg of the queue's attributes
MQ_MAXMSG == 10

\* the sentinel, sent with priority 1
MQ_EXIT_MESSAGE == [kind |-> "exit", prio |-> 1, podname |-> "", nodename |-> ""]

\* mq_send on a queue object: after every message of the same or a higher
\* priority, before the ones of a lower priority
Enqueue(msgs, m) ==
    LET ahead == {i \in 1..Len(msgs) : msgs[i].prio >= m.prio}
        k == IF ahead = {} THEN 0 ELSE CHOOSE i \in ahead : \A j \in ahead : j <= i
    IN SubSeq(msgs, 1, k) \o <<m>> \o SubSeq(msgs, k + 1, Len(msgs))

(* ------------------------- rendering of an event ----------------------- *)

\* A path is the sequence of its segments: <<"proc", "1", "root", "etc">> is
\* "/proc/1/root/etc". The segments paths are made of:
Segments == {"proc", "1", "root", "etc"}

\* [0-9]+
IsDigits(x) == x \in {"1", "2"}

\* the pid as operator<< writes it
PidDigits(pid) == IF pid = 1 THEN "1" ELSE "2"

\* the paths of a subject, up to MaxPathLen segments
SubjectPaths == UNION {[1..k -> Segments] : k \in 0..MaxPathLen}

\* getPathArrayFromSubject: "/proc/" << pid << "/root" << path
getPathArrayFromSubject(pid, path) == <<"proc", PidDigits(pid), "root">> \o path

\* proc_regex, "/proc/[0-9]+/root", matches at segment i of s. The pattern
\* starts with a slash and every part of it is followed by a slash or ends
\* the pattern, so over these segments a match is three whole segments.
proc_regex(s, i) ==
    /\ i + 2 <= Len(s)
    /\ s[i] = "proc" /\ IsDigits(s[i + 1]) /\ s[i + 2] = "root"

\* std::regex_replace(s, proc_regex, ""): every match found scanning from the
\* left is left out, and the scan goes on behind the match
RECURSIVE replaceFrom(_, _)
replaceFrom(s, i) ==
    IF i > Len(s) THEN <<>>
    ELSE IF proc_regex(s, i) THEN replaceFrom(s, i + 3)
    ELSE <<s[i]>> \o replaceFrom(s, i + 1)

regex_replace(s) == replaceFrom(s, 1)

\* `fwevent->file_name != ""` compares two addresses, the one of the record's
\* field inside `buffer` and the one of the string literal; what the field
\* holds is not read
AddressOfField == "buffer"
AddressOfLiteral == "literal"

sep(file_name) == IF AddressOfField # AddressOfLiteral THEN "/" ELSE ""

\* fmt::format_to with the named arguments path, file, sep, pod and node
format_to(fwevent, podName, nodeName) ==
    [path |-> regex_replace(fwevent.path_name),
     file |-> fwevent.file_name,
     sep |-> sep(fwevent.file_name),
     pod |-> podName,
     node |-> nodeName]

\* what `buffer` holds when it is read without mq_receive having filled it
Indeterminate == [kind |-> "indeterminate"]

\* a function without the argument x
Without(f, x) == [y \in DOMAIN f \ {x} |-> f[y]]

\* the caller threads of the RPC server that handle requests side by side
Threads == {"t1", "t2"}

\* a caller thread outside a handler
Idle == [pc |-> "idle", op |-> "none", req |-> <<>>, pids |-> <<>>, found |-> 0]

(* ------------------------------- state --------------------------------- *)
VARIABLES
    watchers,   \* watchers_: sequence of FimdHandle records, in insertion order
    mq_,        \* the agent's queue handle
    mqOpen,     \* kernel: open queue descriptor -> queue object
    mqLinked,   \* kernel: the queue object linked under MQ_QUEUE_NAME, 0 if none
    queues,     \* kernel: queue object -> its messages, next to be received first
    sinks,      \* the Sink threads started so far
    workers,    \* the Notification Workers, each with its observer thread
    nextFd,     \* the next wake-up descriptor eventfd hands out
    nextQ,      \* the next queue object
    nextW,      \* the next Watcher identity
    nreq,       \* requests handled so far
    nfail,      \* workers that ended with a non-success status so far
    nevent,     \* events posted so far
    nfault,     \* failed system calls of the handlers so far
    thr,        \* the caller threads that run a handler step by step
    last        \* what the last request did (history, read by the properties)

vars == <<watchers, mq_, mqOpen, mqLinked, queues, sinks, workers,
          nextFd, nextQ, nextW, nreq, nfail, nevent, nfault, thr, last>>

NoLast ==
    [op |-> "none", status |-> "none", nodename |-> "", podname |-> "",
     containerid |-> <<>>, firstFd |-> 0, pids |-> <<>>, nsubject |-> 0, found |-> 0, target |-> 0,
     listBefore |-> <<>>, writes |-> <<>>, listAfter |-> <<>>,
     spawned |-> <<>>, allocFailed |-> FALSE, mqfd |-> 0, mqBefore |-> 0,
     wfail |-> 0, openFailed |-> FALSE,
     sentinel |-> "none", sentq |-> 0]

Init ==
    /\ watchers = <<>>
    /\ mq_ = EOF
    /\ mqOpen = <<>>
    /\ mqLinked = 0
    /\ queues = <<>>
    /\ sinks = <<>>
    /\ workers = {}
    /\ nextFd = 1
    /\ nextQ = 1
    /\ nextW = 1
    /\ nreq = 0
    /\ nfail = 0
    /\ nevent = 0
    /\ nfault = 0
    /\ thr = [t \in Threads |-> Idle]
    /\ last = NoLast

(* -------------------------- parts of the handlers ---------------------- *)

\* the kill loop if it stopped at the first write that fails
signalUntilFailure(ws, writes, wfail) ==
    {w \in ws : ~(/\ w.st = "running"
                  /\ \E k \in 1..Len(writes) :
                        /\ wfail = 0 \/ k < wfail
                        /\ writes[k] = w.fd)}

\* write(processfd, FIMNOTIFY_KILL) for every descriptor of `writes`: the
\* worker polling that descriptor reads the value and returns EXIT_SUCCESS,
\* on which its observer erases nothing; a write to a descriptor nobody polls
\* is lost. Write number wfail of the loop returns EOF (0: none does), which
\* the code answers with an empty statement: that worker is not woken and
\* the loop goes on with the next descriptor.
signal(ws, writes, wfail) ==
    {w \in ws : ~(/\ w.st = "running"
                  /\ \E k \in 1..Len(writes) : k # wfail /\ writes[k] = w.fd)}

\* the descriptors mq_open may return: one that is not open. Other threads of
\* the process open and close descriptors of their own all the time, so the
\* number is either one released earlier or one never used before.
HighHandle ==
    LET used == {sinks[i].mq : i \in 1..Len(sinks)}
    IN IF used = {} THEN 0 ELSE CHOOSE h \in used : \A g \in used : g <= h

FreeHandles(open) == {h \in 1..(HighHandle + 1) : h \notin DOMAIN open}

\* mq_close(mq_) and mq_unlink(MQ_QUEUE_NAME) of a recreation
closeForRecreate(recreate) ==
    [open |-> IF recreate /\ mq_ \in DOMAIN mqOpen THEN Without(mqOpen, mq_) ELSE mqOpen,
     linked |-> IF recreate THEN 0 ELSE mqLinked]

\* createMessageQueue without the test of what mq_open returned
createMessageQueueNoTest(closed, h) ==
    IF h = EOF
    THEN [open |-> closed.open, linked |-> closed.linked, created |-> FALSE,
          mq |-> EOF, ret |-> EOF, sink |-> TRUE]
    ELSE LET q == IF closed.linked # 0 THEN closed.linked ELSE nextQ
         IN [open |-> (h :> q) @@ closed.open, linked |-> q,
             created |-> closed.linked = 0,
             mq |-> h, ret |-> h, sink |-> TRUE]

\* createMessageQueue after the optional close and unlink: mq_open returns
\* `h` (EOF when it fails); with O_CREAT it opens the object linked under the
\* name, or creates and links a new one. `ret` is the value returned, `sink`
\* tells whether a Sink thread is started on it.
createMessageQueue(closed, h) ==
    IF h = EOF
    THEN [open |-> closed.open, linked |-> closed.linked, created |-> FALSE,
          mq |-> EOF, ret |-> EOF, sink |-> FALSE]
    ELSE LET q == IF closed.linked # 0 THEN closed.linked ELSE nextQ
         IN [open |-> (h :> q) @@ closed.open, linked |-> q,
             created |-> closed.linked = 0,
             mq |-> h, ret |-> h, sink |-> TRUE]

\* the calls of createInotifyWatcher of one request: one per pid and subject,
\* pids outermost. eventfd fails in call number failAt (0: in none); a failed
\* call returns before it adds a descriptor or starts a worker. The k-th
\* successful call gets descriptor base + k - 1; nothing in the agent closes
\* a wake-up descriptor, so every descriptor is one never handed out before.
createInotifyWatcher(pids, nsubject, failAt, base) ==
    LET n == Len(pids) * nsubject
        call == [k \in 1..n |->
                   [fd |-> base + (k - 1) - (IF failAt # 0 /\ k > failAt THEN 1 ELSE 0),
                    pid |-> pids[((k - 1) \div nsubject) + 1],
                    ok |-> k # failAt]]
    IN SelectSeq(call, LAMBDA c : c.ok)

Fds(spawned) == [k \in 1..Len(spawned) |-> spawned[k].fd]

\* the worker threads started for the calls above, each given mq_ as it is
\* after createMessageQueue
startWorkers(spawned, mq, req) ==
    {[fd |-> spawned[k].fd, pid |-> spawned[k].pid, mq |-> mq,
      podname |-> req.podname, nodename |-> req.nodename, st |-> "running"]
        : k \in 1..Len(spawned)}

\* sendExitMessageToMessageQueue: mq_send on the Watcher's handle; it fails
\* when that descriptor is not an open queue descriptor
sendExitMessageToMessageQueue(mqfd) ==
    IF mqfd \in DOMAIN mqOpen
    THEN [sent |-> "sent", q |-> mqOpen[mqfd],
          queues |-> [queues EXCEPT ![mqOpen[mqfd]] = Enqueue(@, MQ_EXIT_MESSAGE)]]
    ELSE [sent |-> "failed", q |-> 0, queues |-> queues]

\* vector erase(remove(begin, end, watcher), end): drops position idx; with
\* watcher == nullptr (idx 0) no element compares equal
removeWatcher(ws, idx) ==
    [i \in 1..(Len(ws) - (IF idx = 0 THEN 0 ELSE 1)) |->
        IF idx # 0 /\ i >= idx THEN ws[i + 1] ELSE ws[i]]

\* storeWatcher without clear_processeventfd()
storeWatcherNoClear(ws, idx, left, response) ==
    IF idx = 0 THEN Append(ws, response)
    ELSE [ws EXCEPT ![idx].processeventfd = left \o response.processeventfd]

\* the end of CreateWatch: with no Watcher found a copy of the response is
\* appended; a Watcher found has had its list cleared after the kill signals
\* (`left` is what they left in it) and gets the descriptors of the response
\* added, its other fields staying as they are
storeWatcher(ws, idx, left, response) ==
    IF idx = 0 THEN Append(ws, response)
    ELSE [ws EXCEPT ![idx].processeventfd = <<>> \o response.processeventfd]

(* ------------------------------ handlers ------------------------------- *)

\* the handlers return before they touch anything when no pid resolves
cancelled(op, req) ==
    /\ last' = [NoLast EXCEPT !.op = op, !.status = "CANCELLED",
                              !.nodename = req.nodename,
                              !.containerid = req.containerid,
                              !.firstFd = nextFd, !.mqBefore = mq_]
    /\ UNCHANGED <<watchers, mq_, mqOpen, mqLinked, queues, sinks,
                   workers, nextFd, nextQ, nextW, nfault>>

\* CreateWatch from the test of `watcher` on: idx is the position in
\* watchers_ of the Watcher the lookup returned, 0 for nullptr
createFound(req, pids, idx) ==
    LET kill == IF idx = 0 THEN sendKillSignalToWatcher(<<>>)
                ELSE sendKillSignalToWatcher(watchers[idx].processeventfd)
        closed == closeForRecreate(idx # 0)
    IN \E h \in {EOF} \cup FreeHandles(closed.open),
          failAt \in 0..(Len(pids) * req.nsubject),
          wfail \in 0..Len(kill.writes) :
         LET q == createMessageQueue(closed, h)
             spawned == createInotifyWatcher(pids, req.nsubject, failAt, nextFd)
             faults == (IF h = EOF THEN 1 ELSE 0) + (IF failAt # 0 THEN 1 ELSE 0)
                          + (IF wfail # 0 THEN 1 ELSE 0)
         IN /\ nfault + faults <= MaxFaults
            /\ nfault' = nfault + faults
            /\ watchers' = storeWatcher(watchers, idx, Elements(kill.rf),
                                        [id |-> nextW, nodename |-> req.nodename,
                                         podname |-> req.podname, pid |-> pids,
                                         mqfd |-> q.ret,
                                         processeventfd |-> Fds(spawned)])
            /\ mq_' = q.mq
            /\ mqOpen' = q.open
            /\ mqLinked' = q.linked
            /\ queues' = IF q.created THEN (nextQ :> <<>>) @@ queues ELSE queues
            /\ nextQ' = IF q.created THEN nextQ + 1 ELSE nextQ
            /\ sinks' = IF q.sink
                        THEN Append(sinks, [mq |-> q.mq, podname |-> req.podname,
                                            nodename |-> req.nodename,
                                            st |-> "recv", q |-> 0,
                                            buffer |-> <<>>, out |-> <<>>])
                        ELSE sinks
            /\ workers' = signal(workers, kill.writes, wfail)
                             \cup startWorkers(spawned, q.mq, req)
            /\ nextFd' = nextFd + Len(spawned)
            /\ nextW' = IF idx = 0 THEN nextW + 1 ELSE nextW
            /\ last' = [NoLast EXCEPT
                          !.op = "create", !.status = "OK",
                          !.nodename = req.nodename, !.podname = req.podname,
                          !.containerid = req.containerid, !.firstFd = nextFd,
                          !.pids = pids, !.nsubject = req.nsubject,
                          !.found = IF idx = 0 THEN 0 ELSE watchers[idx].id,
                          !.target = IF idx = 0 THEN nextW ELSE watchers[idx].id,
                          !.listBefore = IF idx = 0 THEN <<>>
                                         ELSE watchers[idx].processeventfd,
                          !.writes = kill.writes,
                          !.listAfter = Elements(kill.rf),
                          !.spawned = Fds(spawned),
                          !.allocFailed = failAt # 0,
                          !.wfail = wfail, !.openFailed = (h = EOF),
                          !.mqfd = q.ret, !.mqBefore = mq_]

CreateWatchOf(req) ==
    LET pids == getPidsFromRequest(req.containerid)
    IN IF pids = <<>> THEN cancelled("create", req)
       ELSE createFound(req, pids,
                        findFimdWatcherByPids(watchers, req.nodename, pids))

\* DestroyWatch from the test of `watcher` on
destroyFound(req, pids, idx) ==
    LET exit == IF idx = 0 THEN [sent |-> "none", q |-> 0, queues |-> queues]
                ELSE sendExitMessageToMessageQueue(watchers[idx].mqfd)
        kill == IF idx = 0 THEN sendKillSignalToWatcher(<<>>)
                ELSE sendKillSignalToWatcher(watchers[idx].processeventfd)
    IN \E wfail \in 0..Len(kill.writes) :
       \* mq_send on a full queue blocks the caller
       /\ idx # 0 /\ watchers[idx].mqfd \in DOMAIN mqOpen
             => Len(queues[mqOpen[watchers[idx].mqfd]]) < MQ_MAXMSG
       /\ nfault + (IF wfail # 0 THEN 1 ELSE 0) <= MaxFaults
       /\ nfault' = nfault + (IF wfail # 0 THEN 1 ELSE 0)
       /\ watchers' = removeWatcher(watchers, idx)
       /\ queues' = exit.queues
       /\ workers' = signal(workers, kill.writes, wfail)
       /\ last' = [NoLast EXCEPT
                     !.op = "destroy", !.status = "OK",
                     !.nodename = req.nodename, !.pids = pids,
                     !.containerid = req.containerid, !.firstFd = nextFd,
                     !.found = IF idx = 0 THEN 0 ELSE watchers[idx].id,
                     !.listBefore = IF idx = 0 THEN <<>>
                                    ELSE watchers[idx].processeventfd,
                     !.writes = kill.writes,
                     !.listAfter = Elements(kill.rf),
                     !.mqfd = IF idx = 0 THEN 0 ELSE watchers[idx].mqfd,
                     !.mqBefore = mq_, !.wfail = wfail,
                     !.sentinel = exit.sent, !.sentq = exit.q]
       /\ UNCHANGED <<mq_, mqOpen, mqLinked, sinks, nextFd, nextQ, nextW>>

DestroyWatchOf(req) ==
    LET pids == getPidsFromRequest(req.containerid)
    IN IF pids = <<>> THEN cancelled("destroy", req)
       ELSE destroyFound(req, pids,
                         findFimdWatcherByPids(watchers, req.nodename, pids))

\* DestroyWatch reads the node name and the container ids only
DestroyRequests == {r \in Requests : r.nsubject = 1}

\* one request handled from start to end on its caller thread
Create(limit) ==
    /\ nreq < limit
    /\ nreq' = nreq + 1
    /\ UNCHANGED <<nfail, nevent, thr>>
    /\ \E req \in Requests : CreateWatchOf(req)

Destroy(limit) ==
    /\ nreq < limit
    /\ nreq' = nreq + 1
    /\ UNCHANGED <<nfail, nevent, thr>>
    /\ \E req \in DestroyRequests : DestroyWatchOf(req)

CreateWatch == Create(MaxRequests)

DestroyWatch == Destroy(MaxRequests)

(* ------------------------ Notification Workers ------------------------- *)

\* an event record as the worker posts it: the watched directory and the
\* entry in it the event is about (empty when it is about the directory
\* itself); the sentinel overtakes it. podname and nodename are not part of
\* the record: they tell the properties which worker posted it.
Event(w, path_name, file_name) ==
    [kind |-> "event", prio |-> 0, path_name |-> path_name, file_name |-> file_name,
     podname |-> w.podname, nodename |-> w.nodename]

\* the entry names of the events
FileNames == {"", "hosts"}

\* a worker posts an event on the handle it was started with, about a
\* directory below its process root
PostEvent(paths, files) ==
    /\ nevent < MaxEvents
    /\ \E w \in workers, path \in paths, file_name \in files :
         /\ w.st = "running"
         /\ w.mq \in DOMAIN mqOpen
         /\ Len(queues[mqOpen[w.mq]]) < MQ_MAXMSG
         /\ queues' = [queues EXCEPT ![mqOpen[w.mq]] =
                          Enqueue(@, Event(w, getPathArrayFromSubject(w.pid, path),
                                           file_name))]
    /\ nevent' = nevent + 1
    /\ UNCHANGED <<watchers, mq_, mqOpen, mqLinked, sinks, workers,
                   nextFd, nextQ, nextW, nreq, nfail, nfault, thr, last>>

\* events about the directory /etc
WorkerPost == PostEvent({<<"etc">>}, FileNames)

\* events about any directory
WorkerPostAny == PostEvent(SubjectPaths, FileNames)

\* a worker returns a non-success status (its process root is gone, a
\* system call failed)
WorkerFail ==
    /\ nfail < MaxFailures
    /\ \E w \in workers :
         /\ w.st = "running"
         /\ workers' = (workers \ {w}) \cup {[w EXCEPT !.st = "failed"]}
    /\ nfail' = nfail + 1
    /\ UNCHANGED <<watchers, mq_, mqOpen, mqLinked, queues, sinks,
                   nextFd, nextQ, nextW, nreq, nevent, nfault, thr, last>>

\* the registry after eraseEventProcessfd(list of Watcher i, fd)
eraseInWatcher(ws, i, fd) ==
    [ws EXCEPT ![i].processeventfd =
        Elements(eraseEventProcessfd(RepeatedField(@), fd))]

\* the observer of a failed worker calls eraseEventProcessfd(eventProcessfds,
\* processfd) where both names are captured by reference from the frame of
\* createInotifyWatcher, which has returned: what they hold is whatever that
\* part of the caller's stack holds by then. The field last passed in is the
\* one of the RPC response, which is not the Registry's Watcher (that is a
\* copy of it, or another object); another value can point anywhere, also at
\* a field of a Watcher of the Registry.
cleanupThread ==
    /\ \E w \in workers :
         /\ w.st = "failed"
         /\ workers' = (workers \ {w}) \cup {[w EXCEPT !.st = "reaped"]}
         /\ \/ UNCHANGED watchers
            \/ \E i \in 1..Len(watchers) :
                 \E fd \in Range(watchers[i].processeventfd) :
                    watchers' = eraseInWatcher(watchers, i, fd)
    /\ UNCHANGED <<mq_, mqOpen, mqLinked, queues, sinks,
                   nextFd, nextQ, nextW, nreq, nfail, nevent, nfault, thr, last>>

(* -------------------------------- Sinks -------------------------------- *)

\* a Sink enters mq_receive(mq): the kernel resolves the descriptor to the
\* queue object it names at that moment, and the thread waits on that object
\* even if the descriptor is closed meanwhile. On a descriptor that is not
\* open the call returns EOF and the loop calls it again: no step.
startMessageQueueEnter ==
    /\ \E i \in 1..Len(sinks) :
         /\ sinks[i].st = "recv"
         /\ sinks[i].mq \in DOMAIN mqOpen
         /\ sinks' = [sinks EXCEPT ![i].st = "blocked", ![i].q = mqOpen[sinks[i].mq]]
    /\ UNCHANGED <<watchers, mq_, mqOpen, mqLinked, queues, workers,
                   nextFd, nextQ, nextW, nreq, nfail, nevent, nfault, thr, last>>

\* mq_receive returns the first message of the object: on the sentinel the
\* Sink leaves the loop, closes its descriptor number and unlinks the name;
\* any other message is rendered and the Sink receives again
startMessageQueueReceive ==
    /\ \E i \in 1..Len(sinks) :
         /\ sinks[i].st = "blocked"
         /\ queues[sinks[i].q] # <<>>
         /\ queues' = [queues EXCEPT ![sinks[i].q] = Tail(@)]
         /\ IF Head(queues[sinks[i].q]).kind = "exit"
            THEN /\ sinks' = [sinks EXCEPT ![i].st = "done", ![i].q = 0,
                                           ![i].buffer = <<Head(queues[sinks[i].q])>>]
                 /\ mqOpen' = IF sinks[i].mq \in DOMAIN mqOpen
                              THEN Without(mqOpen, sinks[i].mq) ELSE mqOpen
                 /\ mqLinked' = 0
            ELSE /\ sinks' = [sinks EXCEPT
                                ![i].st = "recv", ![i].q = 0,
                                ![i].buffer = <<Head(queues[sinks[i].q])>>,
                                ![i].out = <<format_to(Head(queues[sinks[i].q]),
                                                       sinks[i].podname,
                                                       sinks[i].nodename)>>]
                 /\ UNCHANGED <<mqOpen, mqLinked>>
    /\ UNCHANGED <<watchers, mq_, workers,
                   nextFd, nextQ, nextW, nreq, nfail, nevent, nfault, thr, last>>

\* mq_receive on a descriptor that is not open returns EOF, and the Sink
\* stores to buffer[bytes_read], that is buffer[-1], before it tests
\* bytes_read: a byte of whatever lies next to `buffer` in the frame is set
\* to zero. If that is a byte the loop does not read again, the Sink just
\* calls mq_receive again (no step). If it is the high byte of
\* bytes_read, the test for EOF fails and the Sink goes on with a buffer it
\* never filled: what that holds is indeterminate (on a stack reused from a
\* Sink that has returned, the sentinel that Sink received), so it is either
\* taken for the sentinel or rendered as an event.
startMessageQueueEOF ==
    /\ \E i \in 1..Len(sinks) :
         /\ sinks[i].st = "recv"
         /\ sinks[i].mq \notin DOMAIN mqOpen
         /\ \/ /\ sinks' = [sinks EXCEPT ![i].st = "done",
                                          ![i].buffer = <<Indeterminate>>]
               /\ mqLinked' = 0
            \/ /\ sinks' = [sinks EXCEPT ![i].buffer = <<Indeterminate>>,
                                          ![i].out = <<Indeterminate>>]
               /\ sinks' # sinks
               /\ UNCHANGED mqLinked
    /\ UNCHANGED <<watchers, mq_, mqOpen, queues, workers,
                   nextFd, nextQ, nextW, nreq, nfail, nevent, nfault, thr, last>>

(* ---------------------------- caller threads --------------------------- *)

\* the position in watchers_ of the Watcher a thread holds, 0 for nullptr
PositionOf(id) ==
    IF id = 0 THEN 0 ELSE CHOOSE i \in 1..Len(watchers) : watchers[i].id = id

\* a request arrives on an idle caller thread, which resolves its pids and
\* returns at once when there is none
tBegin ==
    \E t \in Threads, op \in {"create", "destroy"}, req \in Requests :
       /\ thr[t].pc = "idle"
       /\ op = "destroy" => req \in DestroyRequests
       /\ LET pids == getPidsFromRequest(req.containerid)
          IN IF pids = <<>>
             THEN /\ thr' = [thr EXCEPT ![t] = [pc |-> "done", op |-> op, req |-> req,
                                                pids |-> pids, found |-> 0]]
                  /\ cancelled(op, req)
                  /\ nreq' = nreq + 1
             ELSE /\ thr' = [thr EXCEPT ![t] = [pc |-> "find", op |-> op, req |-> req,
                                                pids |-> pids, found |-> 0]]
                  /\ UNCHANGED <<watchers, mq_, mqOpen, mqLinked, queues, sinks,
                                 workers, nextFd, nextQ, nextW, nfault, nreq, last>>
       /\ UNCHANGED <<nfail, nevent>>

\* the thread looks the Watcher up; nothing keeps another thread from
\* changing watchers_ before this one acts on what it found
tFind ==
    \E t \in Threads :
       /\ thr[t].pc = "find"
       /\ LET idx == findFimdWatcherByPids(watchers, thr[t].req.nodename, thr[t].pids)
          IN thr' = [thr EXCEPT ![t].pc = "act",
                                ![t].found = IF idx = 0 THEN 0 ELSE watchers[idx].id]
       /\ UNCHANGED <<watchers, mq_, mqOpen, mqLinked, queues, sinks, workers,
                      nextFd, nextQ, nextW, nreq, nfail, nevent, nfault, last>>

\* the thread runs the rest of its handler on the Watcher it found
tAct ==
    \E t \in Threads :
       /\ thr[t].pc = "act"
       /\ thr[t].found # 0 => \E i \in 1..Len(watchers) : watchers[i].id = thr[t].found
       /\ thr' = [thr EXCEPT ![t].pc = "done"]
       /\ IF thr[t].op = "create"
          THEN createFound(thr[t].req, thr[t].pids, PositionOf(thr[t].found))
          ELSE destroyFound(thr[t].req, thr[t].pids, PositionOf(thr[t].found))
       /\ nreq' = nreq + 1
       /\ UNCHANGED <<nfail, nevent>>

(* ---------------------------- specification ---------------------------- *)

\* requests handled one at a time, and the Sinks receiving what is posted;
\* what a Sink does when mq_receive fails is part of SpecE
Next ==
    \/ CreateWatch
    \/ DestroyWatch
    \/ startMessageQueueEnter
    \/ startMessageQueueReceive

Spec == Init /\ [][Next]_vars

\* requests, and workers that die with their observers
CreateWatchW == Create(MaxRequestsW)

DestroyWatchW == Destroy(MaxRequestsW)

NextW ==
    \/ CreateWatchW
    \/ DestroyWatchW
    \/ WorkerFail
    \/ cleanupThread

SpecW == Init /\ [][NextW]_vars

\* requests, workers that post events and the Sinks that render them
CreateWatchE == Create(MaxRequestsE)

DestroyWatchE == Destroy(MaxRequestsE)

NextE ==
    \/ CreateWatchE
    \/ DestroyWatchE
    \/ WorkerPost
    \/ startMessageQueueEnter
    \/ startMessageQueueReceive
    \/ startMessageQueueEOF

SpecE == Init /\ [][NextE]_vars

\* one watch on the second node, and events about every directory
CreateWatchR ==
    /\ nreq < 1
    /\ nreq' = nreq + 1
    /\ UNCHANGED <<nfail, nevent, thr>>
    /\ \E req \in {r \in Requests : r.nodename = "n2"} : CreateWatchOf(req)

NextR ==
    \/ CreateWatchR
    \/ WorkerPostAny
    \/ startMessageQueueEnter
    \/ startMessageQueueReceive

SpecR == Init /\ [][NextR]_vars

\* two requests, each on its own caller thread
NextConc ==
    \/ tBegin
    \/ tFind
    \/ tAct

SpecConc == Init /\ [][NextConc]_vars

(* ------------------------------ properties ----------------------------- *)

\* a step that is a whole request
Handled == nreq' # nreq

\* the Watchers of the Registry on a node that list a pid of `pids`
Covering(ws, nodeName, pids) ==
    {i \in 1..Len(ws) : /\ ws[i].nodename = nodeName
                        /\ Range(ws[i].pid) \cap Range(pids) # {}}

\* the Watcher of the Registry with identity id (a one-element sequence), if any
WatcherOf(id) == SelectSeq(watchers, LAMBDA w : w.id = id)

\* no system call of a handler has failed so far
NoFault == nfault = 0

\* C1: (as long as no system call of a handler fails) no pid is listed by
\* two distinct Watchers of the same node
PidUniqueness ==
    NoFault =>
      \A i, j \in 1..Len(watchers) :
        i # j /\ watchers[i].nodename = watchers[j].nodename
            => Range(watchers[i].pid) \cap Range(watchers[j].pid) = {}

\* C2: (as long as no system call of a handler fails)
\* a successful CreateWatch that finds some Watcher of the request's node
\* listing one of the resolved pids leaves the Registry as long as it was,
\* and after every successful CreateWatch exactly one Watcher of that node
\* shares a pid with the resolved pids
IdempotentReplace ==
    [][Handled /\ last'.op = "create" /\ last'.status = "OK" /\ NoFault'
         => /\ Covering(watchers, last'.nodename, last'.pids) # {}
                 => Len(watchers') = Len(watchers)
            /\ Cardinality(Covering(watchers', last'.nodename, last'.pids)) = 1]_vars

\* C3: (as long as no system call of a handler fails) after a DestroyWatch
\* that resolved a pid, no Watcher of the request's node lists a resolved pid
\* of the request
DestroyClears ==
    [][Handled /\ last'.op = "destroy" /\ last'.status = "OK" /\ NoFault'
         => Covering(watchers', last'.nodename, last'.pids) = {}]_vars

\* C4: a request none of whose container ids resolves is answered with the
\* cancelled status and changes nothing: not the Registry nor a wake-up list
\* in it, not the queue handle, the open queue descriptors, the linked queue
\* or a queue's messages, not the workers or the Sinks; it writes no kill
\* value and sends no sentinel
NoPidNoEffect ==
    [][Handled /\ (\A k \in 1..Len(last'.containerid) :
                       getPidForContainer(last'.containerid[k]) = 0)
         => /\ last'.status = "CANCELLED"
            /\ UNCHANGED <<watchers, mq_, mqOpen, mqLinked, queues, sinks, workers>>
            /\ last'.writes = <<>>
            /\ last'.sentinel = "none"]_vars

\* C4 witness: a request was cancelled while Watchers, workers, Sinks and an
\* open queue existed
CancelledWithWatchers ==
    /\ last.status = "CANCELLED"
    /\ last.containerid # <<>>
    /\ watchers # <<>>
    /\ workers # {}
    /\ sinks # <<>>
    /\ DOMAIN mqOpen # {}

\* C5: (as long as no system call of a handler fails) when a request signals
\* the Watcher it found, every descriptor the Watcher listed is written to
\* and none of them is left in the list
KillReachesAll ==
    last.status = "OK" /\ last.found # 0 /\ NoFault
        => /\ Range(last.listBefore) \subseteq Range(last.writes)
           /\ Range(last.listAfter) \cap Range(last.listBefore) = {}

\* C6: after a successful CreateWatch in which no eventfd call failed, the
\* list of the Watcher stored or updated is the list of the descriptors this
\* request allocated: one per resolved pid and subject, pids outermost, each
\* polled by a worker started for that pid, and none handed out before
FreshWakeUpList ==
    last.op = "create" /\ last.status = "OK" /\ ~last.allocFailed
        => /\ Len(WatcherOf(last.target)) = 1
           /\ LET fds == WatcherOf(last.target)[1].processeventfd
              IN /\ fds = last.spawned
                 /\ Len(fds) = Len(last.pids) * last.nsubject
                 /\ \A k \in 1..Len(fds) :
                      /\ fds[k] >= last.firstFd
                      /\ fds[k] \notin Range(last.listBefore)
                      /\ \A j \in 1..Len(fds) : j # k => fds[j] # fds[k]
                      /\ \E w \in workers :
                           /\ w.fd = fds[k]
                           /\ w.pid = last.pids[((k - 1) \div last.nsubject) + 1]

\* C6 witness: a successful update of a Watcher whose list the kill signals
\* did not empty, with at least two workers spawned
UpdatedAfterPartialKill ==
    /\ last.op = "create" /\ last.status = "OK" /\ ~last.allocFailed
    /\ last.found # 0
    /\ last.listAfter # <<>>
    /\ Len(last.pids) * last.nsubject >= 2

\* C9: (as long as no system call of a handler fails) at most one queue
\* descriptor is open, and after a successful CreateWatch the handle of the
\* Watcher stored or updated is the agent's current handle, the one of the
\* response
SingleQueueHandle ==
    NoFault =>
      /\ Cardinality(DOMAIN mqOpen) <= 1
      /\ last.op = "create" /\ last.status = "OK"
           => /\ Len(WatcherOf(last.target)) = 1
              /\ WatcherOf(last.target)[1].mqfd = mq_
              /\ mq_ = last.mqfd

\* C10: when no system call of a handler has failed, a DestroyWatch that
\* finds a Watcher posts the sentinel on a queue
SentinelPosted ==
    last.op = "destroy" /\ last.found # 0 /\ NoFault
        => last.sentinel = "sent"

\* C7: (as long as no system call of a handler fails) once the observer of
\* a worker that ended with a non-success status has run, no Watcher of the
\* Registry lists that worker's descriptor
DeadWorkerPruned ==
    \A w \in workers :
        w.st = "reaped" /\ NoFault
            => \A i \in 1..Len(watchers) : w.fd \notin Range(watchers[i].processeventfd)

\* the Registry as the node and the pid list of each Watcher
Abstract(ws) == [i \in 1..Len(ws) |-> [nodename |-> ws[i].nodename, pid |-> ws[i].pid]]

\* what a request handled alone makes of a Registry
Alone(reg, t) ==
    LET idx == findFimdWatcherByPids(reg, thr[t].req.nodename, thr[t].pids)
    IN IF thr[t].pids = <<>> THEN reg
       ELSE IF thr[t].op = "destroy" THEN removeWatcher(reg, idx)
       ELSE IF idx # 0 THEN reg
       ELSE Append(reg, [nodename |-> thr[t].req.nodename, pid |-> thr[t].pids])

\* C8: (as long as no system call of a handler fails) when two requests
\* handled on two threads have both returned, the Registry is what one of
\* the two orders of handling them one after the other gives
Serializable ==
    NoFault /\ (\A t \in Threads : thr[t].pc = "done")
        => Abstract(watchers) \in {Alone(Alone(<<>>, "t1"), "t2"),
                                   Alone(Alone(<<>>, "t2"), "t1")}

\* the Sinks that have received a message and rendered it as an event
Rendered == {i \in 1..Len(sinks) :
                /\ sinks[i].buffer # <<>> /\ sinks[i].out # <<>>
                /\ sinks[i].buffer[1].kind = "event"}

\* the Sinks that have not returned
Live == {i \in 1..Len(sinks) : sinks[i].st # "done"}

SepFollowsFileName ==
    \A i \in Rendered :
       sinks[i].out[1].sep = (IF sinks[i].buffer[1].file_name = "" THEN "" ELSE "/")

\* C16: in every line rendered from an event, the path does not begin with
\* /proc/<digits>/root
PathHasNoProcPrefix ==
    \A i \in Rendered : ~proc_regex(sinks[i].out[1].path, 1)

\* nothing is in flight: every queue is empty and every Sink that has not
\* returned waits in mq_receive
Quiescent ==
    /\ \A q \in DOMAIN queues : queues[q] = <<>>
    /\ \A i \in Live : sinks[i].st = "blocked"

\* C18: (as long as no system call of a handler fails) when the Registry has
\* only ever held one Watcher, so that every CreateWatch after the first was
\* an update, at most one Sink has not returned once nothing is in flight
OldSinkGone ==
    NoFault /\ nextW <= 2 /\ Quiescent => Cardinality(Live) <= 1

\* C20: (as long as no system call of a handler fails, and every request so
\* far was a CreateWatch that stored a new Watcher) every line rendered from
\* an event carries the pod and node names of the worker that posted it
EventCarriesProducerNames ==
    NoFault /\ nextW = nreq + 1 =>
      \A i \in Rendered :
         /\ sinks[i].out[1].pod = sinks[i].buffer[1].podname
         /\ sinks[i].out[1].node = sinks[i].buffer[1].nodename

\* C12: (as long as no system call of a handler fails) a successful request
\* leaves every Watcher whose pids are disjoint from the request's resolved
\* pids in the Registry as it is, writes to none of its wake-up descriptors,
\* and leaves every open queue descriptor its workers post to open
UnrelatedUntouched ==
    [][Handled /\ last'.status = "OK" /\ NoFault'
         => \A i \in 1..Len(watchers) :
               Range(watchers[i].pid) \cap Range(last'.pids) = {}
                 => /\ \E j \in 1..Len(watchers') : watchers'[j] = watchers[i]
                    /\ Range(watchers[i].processeventfd) \cap Range(last'.writes) = {}
                    /\ \A w \in workers :
                          /\ w.fd \in Range(watchers[i].processeventfd)
                          /\ w.mq \in DOMAIN mqOpen
                          => w.mq \in DOMAIN mqOpen']_vars

\* C13: a DestroyWatch for which some container id resolves returns OK,
\* whether it found a Watcher or not and whatever failed; the Watcher it
\* found is no longer in the Registry, and every write of the loop other
\* than one that failed has woken the worker polling that descriptor
DestroyAlwaysSucceeds ==
    [][Handled /\ last'.op = "destroy"
               /\ (\E k \in 1..Len(last'.containerid) :
                       getPidForContainer(last'.containerid[k]) # 0)
         => /\ last'.status = "OK"
            /\ Len(watchers') = Len(watchers) - (IF last'.found = 0 THEN 0 ELSE 1)
            /\ \A j \in 1..Len(watchers') : watchers'[j].id # last'.found
            /\ \A k \in 1..Len(last'.writes) :
                  k # last'.wfail
                    => ~\E w \in workers' : w.fd = last'.writes[k] /\ w.st = "running"]_vars

\* C13 witness: a DestroyWatch found a Watcher, its sentinel was not sent,
\* and a wake-up write failed that was not the last of the loop
DestroyWithFailures ==
    /\ last.op = "destroy" /\ last.status = "OK" /\ last.found # 0
    /\ last.sentinel = "failed"
    /\ last.wfail # 0 /\ last.wfail < Len(last.writes)

\* pids is the list of the pids of the ids of containerid that resolve, in
\* the order of containerid
ResolvedInOrder(containerid, pids) ==
    LET at == {k \in 1..Len(containerid) : getPidForContainer(containerid[k]) # 0}
    IN /\ Len(pids) = Cardinality(at)
       /\ \E f \in [1..Len(pids) -> at] :
             /\ \A a, b \in 1..Len(pids) : a < b => f[a] < f[b]
             /\ \A a \in 1..Len(pids) : pids[a] = getPidForContainer(containerid[f[a]])

\* C14: a CreateWatch for which some container id resolves returns OK; the
\* pid list of its response, and of the Watcher it stores when it found
\* none, is the list of the resolved pids in request order, and every
\* worker it starts is one for a resolved pid
PartialResolution ==
    /\ last.op = "create"
    /\ \E k \in 1..Len(last.containerid) : getPidForContainer(last.containerid[k]) # 0
    => /\ last.status = "OK"
       /\ ResolvedInOrder(last.containerid, last.pids)
       /\ last.found = 0
            => /\ Len(WatcherOf(last.target)) = 1
               /\ WatcherOf(last.target)[1].pid = last.pids
       /\ \A w \in workers :
             w.fd \in Range(last.spawned)
               => /\ w.pid # 0
                  /\ \E k \in 1..Len(last.containerid) :
                        w.pid = getPidForContainer(last.containerid[k])

\* C14 witness: a CreateWatch with an id that resolves and one that does
\* not has stored a new Watcher and started workers
MixedCreateStored ==
    /\ last.op = "create" /\ last.status = "OK" /\ last.found = 0
    /\ \E k \in 1..Len(last.containerid) : getPidForContainer(last.containerid[k]) # 0
    /\ \E k \in 1..Len(last.containerid) : getPidForContainer(last.containerid[k]) = 0
    /\ last.spawned # <<>>
    /\ Len(WatcherOf(last.target)) = 1

\* C17: (as long as no system call of a handler fails) the Watcher a
\* request finds is the first one of the Registry on the request's node
\* that lists one of the resolved pids, and none when there is no such
\* Watcher
LookupFindsFirstCovering ==
    [][Handled /\ last'.status = "OK" /\ NoFault'
         => LET cov == Covering(watchers, last'.nodename, last'.pids)
            IN last'.found = (IF cov = {} THEN 0
                              ELSE watchers[CHOOSE i \in cov :
                                               \A j \in cov : i <= j].id)]_vars

\* C19: a CreateWatch in which mq_open fails starts no Sink and returns OK
\* with the failure value as the handle of its response; when no eventfd
\* call failed it starts one worker per resolved pid and subject, each given
\* the failure value as its handle, and the Watcher stored or updated lists
\* their descriptors, a stored one with the failure value as its handle
OpenFailureStillInstalls ==
    [][Handled /\ last'.op = "create" /\ last'.openFailed
         => /\ sinks' = sinks
            /\ last'.status = "OK"
            /\ last'.mqfd = EOF /\ mq_' = EOF
            /\ Len(SelectSeq(watchers', LAMBDA x : x.id = last'.target)) = 1
            /\ last'.found = 0
                 => /\ Len(watchers') = Len(watchers) + 1
                    /\ watchers'[Len(watchers')].mqfd = EOF
                    /\ watchers'[Len(watchers')].pid = last'.pids
            /\ ~last'.allocFailed
                 => /\ Len(last'.spawned) = Len(last'.pids) * last'.nsubject
                    /\ SelectSeq(watchers', LAMBDA x : x.id = last'.target)[1]
                           .processeventfd = last'.spawned
                    /\ \A k \in 1..Len(last'.spawned) :
                          \E w \in workers' :
                             /\ w.fd = last'.spawned[k] /\ w.st = "running"
                             /\ w.mq = EOF]_vars

\* C19 witness: mq_open failed in a CreateWatch that updated a Watcher and
\* started more than one worker
UpdatedWithInvalidHandle ==
    /\ last.op = "create" /\ last.status = "OK" /\ last.openFailed
    /\ last.found # 0
    /\ Len(last.spawned) >= 2
    /\ mq_ = EOF

====
